---- MODULE Spec2Model ----
(***************************************************************************)
(* Model of los/main/plotting/peri/n_plot.py: the merger-tree scan that    *)
(* builds the Halo objects, the membership loop that sorts them into hosts *)
(* and subhalos, and the loop over hosts that displaces every subhalo,     *)
(* finds its perihelion, masks the subhalos and stacks the density         *)
(* profiles.                                                               *)
(*                                                                         *)
(* Numbers.  Positions and distances are integers in one length unit, the  *)
(* box side being L = 250 of them.  A quotient a/b of the script (true     *)
(* division) is the exact rational [num |-> a, den |-> b]; it is compared  *)
(* by cross-multiplication.  np.sqrt is the integer square root: exact on  *)
(* perfect squares, rounded down otherwise.  arccos, arctan2 and           *)
(* cosmo.age are uninterpreted: their results are the tuples of their      *)
(* arguments.  The velocities of lines 125-129 (deriv.vector_deriv) are    *)
(* read by no operation of the script and are left out, as are the         *)
(* columns tree_snaps and ms and the lists phis, ths and ts of line 186,   *)
(* which only the PLOT_INDIV branch (off) reads.                           *)
(***************************************************************************)
EXTENDS Integers, Sequences, FiniteSets

VARIABLES
    tree,        \* the merger-tree table: rows [id, scale, x, y, z, r]
    s_ids,       \* membership table, column 0
    h_ids,       \* membership table, column 2
    rad_info,    \* id -> [r_sp, r_max, r200m, r200c]
    pc,          \* position of the script
    start,       \* line 138
    i,           \* the loop variable of lines 140, 151 and 182
    hs,          \* id -> Halo
    hosts,       \* list of hosts (ids of the Halo objects in hs)
    sub,         \* position in host.subs of the loops of lines 184 and 187
    ds,          \* line 186 / 189
    dps,         \* line 186 / 190
    xps,         \* line 186 / 191
    xs,          \* line 197: ds / host.rs[-1]
    mask,        \* line 235
    n,           \* line 237
    sub_counts,  \* line 176 / 238
    b_r_sp,      \* line 173 / 248
    b_r_max,     \* line 173 / 255
    b_r200m,     \* line 173 / 262
    b_r200c,     \* line 173 / 269
    calls        \* history: the Halo method calls made so far, in order

vars == <<tree, s_ids, h_ids, rad_info, pc, start, i, hs, hosts, sub, ds, dps,
          xps, xs, mask, n, sub_counts, b_r_sp, b_r_max, b_r200m, b_r200c, calls>>

-----------------------------------------------------------------------------
(* Configuration constants of the script *)

L == 250

SUBHALO_LIM == 40

r_sp_scale == 1

r_max_scale == 1

r200m_scale == 1

r200c_scale == 1

bins == 25

\* eps of eps_eq, 0.01
eps == [num |-> 1, den |-> 100]

\* r_lo, r_hi = 0.1, 2
r_lo == [num |-> 1, den |-> 10]

r_hi == [num |-> 2, den |-> 1]

-----------------------------------------------------------------------------
(* Arithmetic *)

Min(a, b) == IF a < b THEN a ELSE b

Abs(a) == IF a < 0 THEN -a ELSE a

\* a / b under "from __future__ import division"
Div(a, b) == [num |-> a, den |-> b]

\* q / b and q * b for a rational q and an integer b
RDivInt(q, b) == [num |-> q.num, den |-> q.den * b]

RLt(p, q) == p.num * q.den < q.num * p.den

RLe(p, q) == p.num * q.den <= q.num * p.den

RSub(p, q) == [num |-> p.num * q.den - q.num * p.den, den |-> p.den * q.den]

RAbs(p) == [num |-> Abs(p.num), den |-> p.den]

\* np.sqrt on a non-negative integer
Sqrt(v) == CHOOSE r \in 0..(2 * L) : r * r <= v /\ v < (r + 1) * (r + 1)

\* Python's s[j] on a list of length Len(s): the 1-based position read
PyIdx(s, j) == IF j < 0 THEN Len(s) + j + 1 ELSE j + 1

PyGet(s, j) == s[PyIdx(s, j)]

\* Python's s[start:end] for 0 <= start, 0 <= end <= len(s)
PySlice(s, a, b) == SubSeq(s, a + 1, b)

Column(rows, f) == [j \in 1..Len(rows) |-> rows[j][f]]

-----------------------------------------------------------------------------
(* class Halo *)

\* Halo.__init__(start, end)
HaloNew(a, b) ==
    LET rows == PySlice(tree, a, b) IN
    [ id      |-> PyGet(tree, b - 1).id,
      scales  |-> Column(rows, "scale"),
      ts      |-> [j \in 1..Len(rows) |-> <<"age", rows[j].scale>>],
      xs      |-> Column(rows, "x"),
      ys      |-> Column(rows, "y"),
      zs      |-> Column(rows, "z"),
      rs      |-> Column(rows, "r"),
      subs    |-> <<>>,
      ds      |-> <<>>,
      phis    |-> <<>>,
      ths     |-> <<>>,
      host_rs |-> <<>>,
      r_sp    |-> 0,
      r_max   |-> 0,
      r200m   |-> 0,
      r200c   |-> 0 ]

\* the wrap without its second test (line 112 dropped)
WrapNoAdd(d) == IF 2 * d > L THEN d - L ELSE d

\* lines 111-112: the two wrap tests applied to one coordinate difference
Wrap(d) ==
    LET d1 == IF 2 * d > L THEN d - L ELSE d
    IN  IF 2 * d1 < -L THEN d1 + L ELSE d1

\* lines 109-118 for one coordinate array: iterations j, j+1, ..., m-1
RECURSIVE DisplaceLoop(_, _, _, _)
DisplaceLoop(sx, hx, j, m) ==
    IF j >= m THEN sx
    ELSE DisplaceLoop(
            [sx EXCEPT ![PyIdx(sx, -j)] = Wrap(sx[PyIdx(sx, -j)] - hx[PyIdx(hx, -j)])],
            hx, j + 1, m)

DisplaceCoord(sx, hx) == DisplaceLoop(sx, hx, 0, Min(Len(sx), Len(hx)))

\* Halo.displace(host)
Displace(self, host) ==
    LET nx == DisplaceCoord(self.xs, host.xs)
        ny == DisplaceCoord(self.ys, host.ys)
        nz == DisplaceCoord(self.zs, host.zs)
        nd == [j \in 1..Len(nx) |-> Sqrt(nx[j] * nx[j] + ny[j] * ny[j] + nz[j] * nz[j])]
    IN  [self EXCEPT
            !.xs = nx, !.ys = ny, !.zs = nz,
            !.ds = nd,
            !.phis = [j \in 1..Len(nx) |-> <<"arccos", nz[j], nd[j]>>],
            !.ths = [j \in 1..Len(nx) |-> <<"arctan2", ny[j], nx[j]>>],
            !.host_rs = host.rs]

\* np.argmin: the 0-based position of the first minimum
ArgMin(s) ==
    (CHOOSE j \in 1..Len(s) :
        /\ \A k \in 1..Len(s) : s[j] <= s[k]
        /\ \A k \in 1..(j - 1) : s[k] > s[j]) - 1

\* self.ds[-l:]
Window(s, l) == SubSeq(s, Len(s) - l + 1, Len(s))

\* hi without the shift by l: the position in the window used as a position in ds
PeriIndexUnshifted(self) ==
    ArgMin(Window(self.ds, Min(Len(self.ds), Len(self.host_rs))))

\* hi of line 135
PeriIndex(self) ==
    LET l == Min(Len(self.ds), Len(self.host_rs))
    IN  ArgMin(Window(self.ds, l)) - l

\* perihelion() reading the host radius at the window position i instead of hi
PerihelionWindowRadius(self) ==
    LET l  == Min(Len(self.ds), Len(self.host_rs))
        w  == ArgMin(Window(self.ds, l))
        hi == w - l
    IN  << PyGet(self.ds, hi),
           Div(PyGet(self.ds, hi), PyGet(self.host_rs, w)),
           PyGet(self.phis, hi),
           PyGet(self.ths, hi),
           PyGet(self.ts, hi) >>

\* Halo.perihelion()
Perihelion(self) ==
    LET hi == PeriIndex(self)
    IN  << PyGet(self.ds, hi),
           Div(PyGet(self.ds, hi), PyGet(self.host_rs, hi)),
           PyGet(self.phis, hi),
           PyGet(self.ths, hi),
           PyGet(self.ts, hi) >>

-----------------------------------------------------------------------------
(* The per-host aggregation, lines 195-269 *)

\* eps_eq with <= for <
eps_eq_le(x, y) == RLe(RAbs(RSub(x, y)), eps)

\* eps_eq(x, y)
eps_eq(x, y) == RLt(RAbs(RSub(x, y)), eps)

\* the mask without its eps_eq term
MaskOfNoEps(xp, x, d) == RLt(xp, Div(1, 1)) /\ d > 0

\* one element of mask, line 235
MaskOf(xp, x, d) == (~eps_eq(xp, x)) /\ RLt(xp, Div(1, 1)) /\ d > 0

\* np.sum over a boolean list
RECURSIVE CountTrue(_)
CountTrue(m) == IF m = <<>> THEN 0 ELSE (IF Head(m) THEN 1 ELSE 0) + CountTrue(Tail(m))

\* a[mask]
RECURSIVE Masked(_, _)
Masked(a, m) ==
    IF a = <<>> THEN <<>>
    ELSE IF Head(m) THEN <<Head(a)>> \o Masked(Tail(a), Tail(m))
         ELSE Masked(Tail(a), Tail(m))

\* np.histogram's bin of a value v inside range: floor((v - lo) / (hi - lo) * bins),
\* the right edge falling in the last bin; bins are numbered from 1 here
BinOf(v) ==
    LET t == RSub(v, r_lo)
        w == RSub(r_hi, r_lo)
        k == (t.num * w.den * bins) \div (t.den * w.num)
    IN  IF k >= bins THEN bins ELSE k + 1

InRange(v) == RLe(r_lo, v) /\ RLe(v, r_hi)

\* np.histogram(a, bins=bins, range=(r_lo, r_hi))[0]
RECURSIVE NpHistogram(_)
NpHistogram(a) ==
    IF a = <<>> THEN [b \in 1..bins |-> 0]
    ELSE LET rest == NpHistogram(Tail(a))
         IN  IF InRange(Head(a))
             THEN [rest EXCEPT ![BinOf(Head(a))] = @ + 1]
             ELSE rest

\* np.histogram(...)[1][b] = np.linspace(r_lo, r_hi, bins + 1)[b], b = 0..bins,
\* as a multiple of 1/250: 0.1 + b * 1.9 / 25 = (25 + 19 b) / 250
edges(b) == 25 + 19 * b

\* vol(r) of line 180 for r a multiple of 1/250, as a multiple of (4 pi / 3) / 250^3
vol(r) == r * r * r

RECURSIVE SumSeq(_)
SumSeq(q) == IF q = <<>> THEN 0 ELSE Head(q) + SumSeq(Tail(q))

\* normalising by the number of subhalos the histogram counted
ProfileNormInRange(m, vals) == SumSeq(vals)

\* the divisor of the count of bin b besides the shell volume (lines 248-269: n)
ProfileNorm(m, vals) == CountTrue(m)

\* vals / (vol(edges[1:]) - vol(edges[:-1])) / n for
\* vals = np.histogram((ds / host_r * scale)[mask], ...)
Profile(d, m, host_r, scale) ==
    LET vals == NpHistogram(Masked([j \in 1..Len(d) |-> Div(d[j] * scale, host_r)], m))
    IN  [b \in 1..bins |->
            RDivInt(Div(vals[b], vol(edges(b)) - vol(edges(b - 1))), ProfileNorm(m, vals))]

\* the threshold test with >= for >
QualifiesGe(cnt) == cnt >= SUBHALO_LIM

\* the test of line 240
Qualifies(cnt) == cnt > SUBHALO_LIM

-----------------------------------------------------------------------------
(* The script, top to bottom *)

\* lines 140-144, one row
ScanRow ==
    /\ pc = "scan"
    /\ i < Len(tree)
    /\ IF tree[i + 1].id = -1
       THEN LET h == HaloNew(start, i) IN
            /\ start' = i + 1
            /\ hs' = [k \in DOMAIN hs \cup {h.id} |-> IF k = h.id THEN h ELSE hs[k]]
       ELSE UNCHANGED <<start, hs>>
    /\ i' = i + 1
    /\ UNCHANGED <<tree, s_ids, h_ids, rad_info, pc, hosts, sub, ds, dps, xps, xs,
                   mask, n, sub_counts, b_r_sp, b_r_max, b_r200m, b_r200c, calls>>

\* lines 145-150
ScanEnd ==
    /\ pc = "scan"
    /\ i = Len(tree)
    /\ LET h == HaloNew(start, Len(tree)) IN
       hs' = [k \in DOMAIN hs \cup {h.id} |-> IF k = h.id THEN h ELSE hs[k]]
    /\ hosts' = <<>>
    /\ i' = 0
    /\ pc' = "members"
    /\ UNCHANGED <<tree, s_ids, h_ids, rad_info, start, sub, ds, dps, xps, xs,
                   mask, n, sub_counts, b_r_sp, b_r_max, b_r200m, b_r200c, calls>>

\* lines 151-171, one row of the membership table
MemberRow ==
    /\ pc = "members"
    /\ i < Len(s_ids)
    /\ LET id == s_ids[i + 1]
           h  == h_ids[i + 1]
       IN  IF id = h
           THEN IF id \in DOMAIN hs /\ id \in DOMAIN rad_info
                THEN /\ hosts' = Append(hosts, id)
                     /\ hs' = [hs EXCEPT ![id].r_sp = rad_info[id].r_sp,
                                         ![id].r_max = rad_info[id].r_max,
                                         ![id].r200m = rad_info[id].r200m,
                                         ![id].r200c = rad_info[id].r200c]
                     /\ pc' = pc
                ELSE /\ pc' = "KeyError"
                     /\ UNCHANGED <<hosts, hs>>
           ELSE IF id \in DOMAIN hs /\ h \in DOMAIN hs
                THEN /\ hs' = [hs EXCEPT ![h].subs = Append(@, id)]
                     /\ pc' = pc
                     /\ hosts' = hosts
                ELSE /\ pc' = "KeyError"
                     /\ UNCHANGED <<hosts, hs>>
    /\ i' = i + 1
    /\ UNCHANGED <<tree, s_ids, h_ids, rad_info, start, sub, ds, dps, xps, xs,
                   mask, n, sub_counts, b_r_sp, b_r_max, b_r200m, b_r200c, calls>>

\* lines 172-178, and entering the loop of line 182
MemberEnd ==
    /\ pc = "members"
    /\ i = Len(s_ids)
    /\ b_r_sp' = <<>> /\ b_r_max' = <<>> /\ b_r200m' = <<>> /\ b_r200c' = <<>>
    /\ sub_counts' = <<>>
    /\ i' = 0
    /\ sub' = 0
    /\ pc' = "displace"
    /\ UNCHANGED <<tree, s_ids, h_ids, rad_info, start, hs, hosts, ds, dps, xps, xs,
                   mask, n, calls>>

\* line 184, one subhalo
DisplaceSub ==
    /\ pc = "displace"
    /\ i < Len(hosts)
    /\ sub < Len(hs[hosts[i + 1]].subs)
    /\ LET host == hosts[i + 1]
           s    == hs[host].subs[sub + 1]
       IN  /\ hs' = [hs EXCEPT ![s] = Displace(hs[s], hs[host])]
           /\ calls' = Append(calls, [op |-> "displace", self |-> s, host |-> host, ret |-> <<>>])
    /\ sub' = sub + 1
    /\ UNCHANGED <<tree, s_ids, h_ids, rad_info, pc, start, i, hosts, ds, dps, xps, xs,
                   mask, n, sub_counts, b_r_sp, b_r_max, b_r200m, b_r200c>>

\* line 186
DisplaceEnd ==
    /\ pc = "displace"
    /\ i < Len(hosts)
    /\ sub = Len(hs[hosts[i + 1]].subs)
    /\ ds' = <<>> /\ dps' = <<>> /\ xps' = <<>>
    /\ sub' = 0
    /\ pc' = "perihelion"
    /\ UNCHANGED <<tree, s_ids, h_ids, rad_info, start, i, hs, hosts, xs,
                   mask, n, sub_counts, b_r_sp, b_r_max, b_r200m, b_r200c, calls>>

\* lines 187-194, one subhalo
PerihelionSub ==
    /\ pc = "perihelion"
    /\ sub < Len(hs[hosts[i + 1]].subs)
    /\ LET s == hs[hosts[i + 1]].subs[sub + 1]
           p == Perihelion(hs[s])
       IN  /\ ds' = Append(ds, PyGet(hs[s].ds, -1))
           /\ dps' = Append(dps, p[1])
           /\ xps' = Append(xps, p[2])
           /\ calls' = Append(calls, [op |-> "perihelion", self |-> s, host |-> hosts[i + 1], ret |-> p])
    /\ sub' = sub + 1
    /\ UNCHANGED <<tree, s_ids, h_ids, rad_info, pc, start, i, hs, hosts, xs,
                   mask, n, sub_counts, b_r_sp, b_r_max, b_r200m, b_r200c>>

\* lines 195-269
MaskAndStack ==
    /\ pc = "perihelion"
    /\ sub = Len(hs[hosts[i + 1]].subs)
    /\ LET host == hs[hosts[i + 1]]
           x    == [j \in 1..Len(ds) |-> Div(ds[j], PyGet(host.rs, -1))]
           m    == [j \in 1..Len(ds) |-> MaskOf(xps[j], x[j], ds[j])]
           cnt  == CountTrue(m)
       IN  /\ xs' = x
           /\ mask' = m
           /\ n' = cnt
           /\ sub_counts' = Append(sub_counts, cnt)
           /\ IF Qualifies(cnt)
              THEN /\ b_r_sp' = Append(b_r_sp, Profile(ds, m, host.r_sp, r_sp_scale))
                   /\ b_r_max' = Append(b_r_max, Profile(ds, m, host.r_max, r_max_scale))
                   /\ b_r200m' = Append(b_r200m, Profile(ds, m, host.r200m, r200m_scale))
                   /\ b_r200c' = Append(b_r200c, Profile(ds, m, host.r200c, r200c_scale))
              ELSE UNCHANGED <<b_r_sp, b_r_max, b_r200m, b_r200c>>
    /\ i' = i + 1
    /\ sub' = 0
    /\ pc' = "displace"
    /\ UNCHANGED <<tree, s_ids, h_ids, rad_info, start, hs, hosts, ds, dps, xps, calls>>

\* line 271: the bin centres, as multiples of 1/250; edges is still None when no
\* host qualified
Finish ==
    /\ pc = "displace"
    /\ i = Len(hosts)
    /\ IF b_r_sp = <<>>
       THEN pc' = "TypeError" /\ xs' = xs
       ELSE /\ pc' = "done"
            /\ xs' = [b \in 1..bins |-> Div(edges(b - 1) + edges(b), 2)]
    /\ UNCHANGED <<tree, s_ids, h_ids, rad_info, start, i, hs, hosts, sub, ds, dps, xps,
                   mask, n, sub_counts, b_r_sp, b_r_max, b_r200m, b_r200c, calls>>

NextScan == ScanRow \/ ScanEnd

Next ==
    \/ ScanRow \/ ScanEnd
    \/ MemberRow \/ MemberEnd
    \/ DisplaceSub \/ DisplaceEnd
    \/ PerihelionSub \/ MaskAndStack
    \/ Finish

-----------------------------------------------------------------------------
(* Inputs: the three tables the script loads *)

MaxLen == 3

MaxRows == 4

MaxMembers == 3

MaxExtra == 2

\* the sentinel row that ends a history in the tree table
Sentinel == [id |-> -1, scale |-> 0, x |-> 0, y |-> 0, z |-> 0, r |-> 0]

\* the rows of one halo, earliest first; the most recent row carries the halo's id
\* and every history ends at the same scale factor
Rows(id, samples) ==
    [j \in 1..Len(samples) |->
        [id |-> id + 10 * (Len(samples) - j), scale |-> 100 - Len(samples) + j,
         x |-> samples[j].x, y |-> samples[j].y, z |-> samples[j].z, r |-> samples[j].r]]

\* histories a..b of hists joined by sentinel rows
RECURSIVE JoinRange(_, _, _)
JoinRange(hists, a, b) ==
    IF a = b THEN hists[a]
    ELSE LET mid == (a + b) \div 2
         IN  JoinRange(hists, a, mid) \o <<Sentinel>> \o JoinRange(hists, mid + 1, b)

Join(hists, j) == JoinRange(hists, j, Len(hists))

Pt(x, y, z, r) == [x |-> x, y |-> y, z |-> z, r |-> r]

Radii(a, b, c, d) == [r_sp |-> a, r_max |-> b, r200m |-> c, r200c |-> d]

SeqsUpTo(S, k) == UNION {[1..m -> S] : m \in 1..k}

\* the variables the script has not assigned yet
Unset ==
    /\ pc = "scan"
    /\ start = 0
    /\ i = 0
    /\ hs = <<>>
    /\ hosts = <<>>
    /\ sub = 0
    /\ ds = <<>> /\ dps = <<>> /\ xps = <<>> /\ xs = <<>>
    /\ mask = <<>>
    /\ n = 0
    /\ sub_counts = <<>>
    /\ b_r_sp = <<>> /\ b_r_max = <<>> /\ b_r200m = <<>> /\ b_r200c = <<>>
    /\ calls = <<>>

(* Tree tables of up to MaxRows rows, each a sentinel or a row of halo 1 or 2 *)
InitTree ==
    /\ \E ids \in SeqsUpTo({-1, 1, 2}, MaxRows) :
          tree = [j \in 1..Len(ids) |->
                    IF ids[j] = -1 THEN Sentinel
                    ELSE [id |-> ids[j], scale |-> j, x |-> j, y |-> 0, z |-> 0, r |-> 1]]
    /\ s_ids = <<>> /\ h_ids = <<>>
    /\ rad_info = <<>>
    /\ Unset

SpecTree == InitTree /\ [][NextScan]_vars

(* One host and one subhalo, with histories of 1..MaxLen snapshots each *)
HostSamples == { Pt(0, 0, 0, 100), Pt(0, 0, 0, 200), Pt(250, 240, 10, 100) }

SubSamples == { Pt(30, 40, 0, 10), Pt(51, 0, 0, 10), Pt(0, 101, 250, 10) }

InitOrbit ==
    /\ \E h \in SeqsUpTo(HostSamples, MaxLen), s \in SeqsUpTo(SubSamples, MaxLen) :
          tree = Join(<<Rows(1, h), Rows(2, s)>>, 1)
    /\ s_ids = <<1, 2>> /\ h_ids = <<1, 1>>
    /\ rad_info = [k \in {1} |-> Radii(100, 200, 50, 25)]
    /\ Unset

SpecOrbit == InitOrbit /\ [][Next]_vars

(* Three halos and every membership table of up to MaxMembers rows over them *)
InitMember ==
    /\ tree = Join(<<Rows(1, <<Pt(0, 0, 0, 100), Pt(0, 0, 0, 100)>>),
                     Rows(2, <<Pt(30, 40, 0, 10), Pt(0, 0, 100, 10)>>),
                     Rows(3, <<Pt(3, 4, 0, 10), Pt(10, 0, 0, 10)>>)>>, 1)
    /\ \E t \in SeqsUpTo({1, 2, 3} \X {1, 2, 3}, MaxMembers) :
          /\ s_ids = [j \in 1..Len(t) |-> t[j][1]]
          /\ h_ids = [j \in 1..Len(t) |-> t[j][2]]
    /\ rad_info = [k \in {1, 2, 3} |-> Radii(100, 200, 50, 25)]
    /\ Unset

SpecMember == InitMember /\ [][Next]_vars

(* Two hosts at the two ends of the box diagonal.  Host 1 has one subhalo drawn
   from Probes, SUBHALO_LIM - 2 subhalos past their pericentre and up to MaxExtra
   more of each of two kinds; host 2 has SUBHALO_LIM + 1 subhalos past their
   pericentre.  *)
Rep(v, k) == [j \in 1..k |-> v]

Inner == <<Pt(30, 40, 0, 10), Pt(0, 0, 100, 10)>>

AtEdge == <<Pt(3, 4, 0, 10), Pt(10, 0, 0, 10)>>

Infall == <<Pt(0, 0, 100, 10), Pt(30, 40, 0, 10)>>

Outer == <<Pt(30, 40, 0, 10), Pt(0, 120, 0, 10)>>

Probes ==
    { Infall,
      <<Pt(51, 0, 0, 10)>>,
      <<Pt(0, 0, 100, 10), Pt(0, 0, 0, 10)>>,
      <<Pt(0, 0, 100, 10), Pt(30, 40, 0, 10), Pt(51, 0, 0, 10)>> }

\* the histories of host id at position c and of its subhalos, numbered from first
Family(id, c, first, kinds) ==
    <<Rows(id, <<Pt(c, c, c, 100), Pt(c, c, c, 100)>>)>>
        \o [j \in 1..Len(kinds) |-> Rows(first + j - 1, kinds[j])]

\* the membership rows of host id and of its k subhalos, numbered from first
Members(id, first, k) == <<id>> \o [j \in 1..k |-> first + j - 1]

InitStack ==
    /\ \E a \in 0..MaxExtra, c \in 0..MaxExtra, p \in Probes :
          LET k1 == <<p>> \o Rep(Inner, SUBHALO_LIM - 2) \o Rep(AtEdge, a)
                        \o Rep(Outer, c)
              k2 == Rep(Inner, SUBHALO_LIM - 1) \o Rep(AtEdge, 2)
              f2 == 3 + Len(k1)
          IN  /\ tree = Join(Family(1, 0, 3, k1) \o Family(2, L, f2, k2), 1)
              /\ s_ids = Members(1, 3, Len(k1)) \o Members(2, f2, Len(k2))
              /\ h_ids = Rep(1, 1 + Len(k1)) \o Rep(2, 1 + Len(k2))
    /\ rad_info = [k \in {1, 2} |->
                      IF k = 1 THEN Radii(100, 200, 50, 25) ELSE Radii(60, 100, 120, 50)]
    /\ Unset

SpecStack == InitStack /\ [][Next]_vars

-----------------------------------------------------------------------------
(* What the claims speak about *)

FromEnd(q, k) == q[Len(q) - k + 1]

\* the rows that end a maximal run of non-sentinel rows of the tree table
RunEnds ==
    {b \in 1..Len(tree) : tree[b].id # -1 /\ (b = Len(tree) \/ tree[b + 1].id = -1)}

RunStart(b) ==
    CHOOSE a \in 1..b :
        /\ \A k \in a..b : tree[k].id # -1
        /\ a = 1 \/ tree[a - 1].id = -1

\* the rows of the tree table that make up the history of halo id
History(id) ==
    LET b == CHOOSE e \in RunEnds : tree[e].id = id IN SubSeq(tree, RunStart(b), b)

DisplaceCalls(id) == {c \in 1..Len(calls) : calls[c].op = "displace" /\ calls[c].self = id}

PerihelionCalls(id) == {c \in 1..Len(calls) : calls[c].op = "perihelion" /\ calls[c].self = id}

\* the wrap of section 4.2 of the design
PeriodicWrap(d) == IF 2 * d > L THEN d - L ELSE IF 2 * d < -L THEN d + L ELSE d

InHalfBox(d) == -L <= 2 * d /\ 2 * d <= L

\* the call calls[c] is the only displacement of its subhalo, against a host that
\* was never displaced itself
OnlyDisplacement(c) ==
    /\ calls[c].op = "displace"
    /\ DisplaceCalls(calls[c].self) = {c}
    /\ DisplaceCalls(calls[c].host) = {}

\* the call calls[c] is a perihelion() whose subhalo was not displaced afterwards
SettledPerihelion(c) ==
    /\ calls[c].op = "perihelion"
    /\ \A c2 \in DisplaceCalls(calls[c].self) : c2 < c

\* the state right after lines 195-269 ran for host i
JustMasked == pc = "displace" /\ i >= 1 /\ sub = 0

\* C1: after displace(host), for every k in 1..min(len(subhalo), len(host)) the
\* k-th entry from the end of xs, ys, zs is the periodic wrap of the original k-th
\* from the end minus the host's k-th from the end, and no entry before that
\* trailing window is changed.
C1_TrailingAligned ==
    \A c \in 1..Len(calls) : OnlyDisplacement(c) =>
        LET o   == History(calls[c].self)
            g   == History(calls[c].host)
            cur == hs[calls[c].self]
            m   == Min(Len(o), Len(g))
        IN  /\ \A k \in 1..m :
                 /\ FromEnd(cur.xs, k) = PeriodicWrap(FromEnd(o, k).x - FromEnd(g, k).x)
                 /\ FromEnd(cur.ys, k) = PeriodicWrap(FromEnd(o, k).y - FromEnd(g, k).y)
                 /\ FromEnd(cur.zs, k) = PeriodicWrap(FromEnd(o, k).z - FromEnd(g, k).z)
            /\ \A j \in 1..(Len(o) - m) :
                 cur.xs[j] = o[j].x /\ cur.ys[j] = o[j].y /\ cur.zs[j] = o[j].z

\* C2: with all positions in [0, L], every entry of xs, ys, zs that displace
\* subtracted the host from lies in [-L/2, L/2] after the wrap.
C2_WrapInvariant ==
    \A c \in 1..Len(calls) : calls[c].op = "displace" =>
        LET cur == hs[calls[c].self]
            m   == Min(Len(cur.xs), Len(hs[calls[c].host].xs))
        IN  \A j \in 0..(m - 1) :
               /\ InHalfBox(PyGet(cur.xs, -j))
               /\ InHalfBox(PyGet(cur.ys, -j))
               /\ InHalfBox(PyGet(cur.zs, -j))

\* a displaced subhalo with one coordinate that was wrapped down by L and one that
\* was wrapped up by L
C2_Witness ==
    \E c \in 1..Len(calls) :
        /\ OnlyDisplacement(c)
        /\ LET o   == History(calls[c].self)
               g   == History(calls[c].host)
               cur == hs[calls[c].self]
           IN  /\ 2 * (FromEnd(o, 1).z - FromEnd(g, 1).z) > L
               /\ FromEnd(cur.zs, 1) = FromEnd(o, 1).z - FromEnd(g, 1).z - L
               /\ 2 * (FromEnd(o, 1).y - FromEnd(g, 1).y) < -L
               /\ FromEnd(cur.ys, 1) = FromEnd(o, 1).y - FromEnd(g, 1).y + L

\* C3: the distance perihelion() returns is <= the present-day distance ds[-1] and
\* <= every distance of the aligned window, the last min(len(ds), len(host_rs))
\* entries of ds.
C3_TrueMinimum ==
    \A c \in 1..Len(calls) : SettledPerihelion(c) =>
        LET cur == hs[calls[c].self]
            l   == Min(Len(cur.ds), Len(cur.host_rs))
        IN  /\ calls[c].ret[1] <= FromEnd(cur.ds, 1)
            /\ \A k \in 1..l : calls[c].ret[1] <= FromEnd(cur.ds, k)

\* a perihelion below the present-day distance, found in a window shorter than ds
C3_Witness ==
    \E c \in 1..Len(calls) :
        /\ SettledPerihelion(c)
        /\ LET cur == hs[calls[c].self]
           IN  /\ Len(cur.host_rs) < Len(cur.ds)
               /\ calls[c].ret[1] < FromEnd(cur.ds, 1)
               /\ calls[c].ret[1] < cur.ds[1]

\* C8: the five values perihelion() returns are those of one snapshot counted from
\* the most recent one: with the first minimum of the aligned window at the k-th
\* entry from the end, the result is (ds[-k], ds[-k]/host_rs[-k], phis[-k],
\* ths[-k], ts[-k]).
C8_SameSnapshot ==
    \A c \in 1..Len(calls) : SettledPerihelion(c) =>
        LET cur == hs[calls[c].self]
            l   == Min(Len(cur.ds), Len(cur.host_rs))
        IN  \E k \in 1..l :
               /\ \A k2 \in 1..l : FromEnd(cur.ds, k) <= FromEnd(cur.ds, k2)
               /\ \A k2 \in (k + 1)..l : FromEnd(cur.ds, k) < FromEnd(cur.ds, k2)
               /\ calls[c].ret = << FromEnd(cur.ds, k),
                                    [num |-> FromEnd(cur.ds, k),
                                     den |-> FromEnd(cur.host_rs, k)],
                                    FromEnd(cur.phis, k),
                                    FromEnd(cur.ths, k),
                                    FromEnd(cur.ts, k) >>

\* a perihelion before the last snapshot, of a subhalo whose history is shorter than
\* its host's, whose host radius changed between the two ends of the history
C8_Witness ==
    \E c \in 1..Len(calls) :
        /\ SettledPerihelion(c)
        /\ LET cur == hs[calls[c].self]
           IN  /\ Len(cur.ds) < Len(cur.host_rs)
               /\ calls[c].ret[1] < FromEnd(cur.ds, 1)
               /\ calls[c].ret[2].den # cur.host_rs[1]
               /\ calls[c].ret[2].den # FromEnd(cur.host_rs, 1)

\* C4: a subhalo is masked in iff its perihelion normalized distance xp < 1, its
\* present-day distance d_now > 0 and |xp - x_now| >= 0.01, x_now = d_now /
\* host.rs[-1]; at exactly 0.01 it is masked in.
C4_MaskExclusivity ==
    JustMasked =>
        LET host == hs[hosts[i]] IN
        /\ Len(mask) = Len(host.subs)
        /\ \A j \in 1..Len(mask) :
              LET s     == hs[host.subs[j]]
                  xp    == calls[Len(calls) - Len(mask) + j].ret[2]
                  d_now == FromEnd(s.ds, 1)
                  r_now == FromEnd(host.rs, 1)
              IN  mask[j] <=>
                     /\ xp.num < xp.den
                     /\ d_now > 0
                     /\ 100 * Abs(xp.num * r_now - d_now * xp.den) >= xp.den * r_now

\* a masked-in subhalo with |xp - x_now| exactly 0.01
C4_Witness ==
    /\ JustMasked
    /\ \E j \in 1..Len(mask) :
          /\ mask[j]
          /\ 100 * Abs(xps[j].num * xs[j].den - xs[j].num * xps[j].den)
                = xps[j].den * xs[j].den

\* the masked-in subhalos of the host just aggregated
MaskedIn == {j \in 1..Len(mask) : mask[j]}

\* the masked-in subhalos whose present-day distance over r falls in bin b of the
\* 25 equal bins of [0.1, 2.0], the last bin closed on the right
InBin(b, r) ==
    {j \in MaskedIn :
        /\ (25 + 19 * (b - 1)) * r <= 250 * ds[j]
        /\ \/ 250 * ds[j] < (25 + 19 * b) * r
           \/ b = 25 /\ 250 * ds[j] = (25 + 19 * b) * r}

\* 4 pi / 3 (r_outer^3 - r_inner^3) of bin b as a multiple of (4 pi / 3) / 250^3
ShellVolume(b) ==
    (25 + 19 * b) * (25 + 19 * b) * (25 + 19 * b)
        - (25 + 19 * (b - 1)) * (25 + 19 * (b - 1)) * (25 + 19 * (b - 1))

\* the profiles the host just aggregated appended, each with its radius
LastProfiles ==
    LET host == hs[hosts[i]]
    IN  { <<b_r_sp[Len(b_r_sp)], host.r_sp>>, <<b_r_max[Len(b_r_max)], host.r_max>>,
          <<b_r200m[Len(b_r200m)], host.r200m>>, <<b_r200c[Len(b_r200c)], host.r200c>> }

\* the subhalos of the host just aggregated whose distance in the aligned window is
\* smallest, and first so, at the most recent snapshot
FirstInfall ==
    {j \in 1..Len(mask) :
        LET s == hs[hs[hosts[i]].subs[j]]
            l == Min(Len(s.ds), Len(s.host_rs))
        IN  \A k \in 2..l : FromEnd(s.ds, k) > FromEnd(s.ds, 1)}

\* C5: a host appends one 25-bin profile to each of the four stacks if its
\* masked-in count n exceeds SUBHALO_LIM = 40 and none otherwise: the four stacks
\* always have the same length, the number of hosts processed with n > 40.
C5_ThresholdGating ==
    pc \in {"displace", "perihelion", "done", "TypeError"} =>
        /\ Len(b_r_sp) = Cardinality({h \in 1..Len(sub_counts) : sub_counts[h] > 40})
        /\ Len(b_r_max) = Len(b_r_sp)
        /\ Len(b_r200m) = Len(b_r_sp)
        /\ Len(b_r200c) = Len(b_r_sp)
        /\ \A st \in {b_r_sp, b_r_max, b_r200m, b_r200c} :
              \A k \in 1..Len(st) : DOMAIN st[k] = 1..25
        /\ JustMasked => sub_counts[i] = Cardinality(MaskedIn)

\* two hosts processed, the first with exactly 40 masked-in subhalos and the second
\* with more: one profile in the stack
C5_Witness ==
    /\ Len(sub_counts) = 2
    /\ sub_counts[1] = 40
    /\ sub_counts[2] > 40
    /\ Len(b_r_sp) = 1

\* C7: for a qualifying host and each of the four radii, entry b of the appended
\* profile is (masked-in subhalos in bin b) / (shell volume of bin b) / n, n the
\* host's masked-in count, out-of-range subhalos included; so the counts summed
\* over the bins are the in-range masked-in count, at most n.
C7_DensityNormalization ==
    (JustMasked /\ sub_counts[i] > SUBHALO_LIM) =>
        \A st \in LastProfiles :
            /\ \A b \in 1..25 :
                  st[1][b] = [num |-> Cardinality(InBin(b, st[2])),
                              den |-> ShellVolume(b) * Cardinality(MaskedIn)]
            /\ SumSeq([b \in 1..25 |-> st[1][b].num])
                  = Cardinality({j \in MaskedIn :
                                    10 * ds[j] >= st[2] /\ ds[j] <= 2 * st[2]})
            /\ SumSeq([b \in 1..25 |-> st[1][b].num]) <= Cardinality(MaskedIn)

\* a qualifying host with a masked-in subhalo outside [0.1, 2.0] for one radius,
\* one on the right edge 2.0 and one on the left edge 0.1
C7_Witness ==
    /\ JustMasked
    /\ sub_counts[i] > SUBHALO_LIM
    /\ \E st \in LastProfiles :
          SumSeq([b \in 1..25 |-> st[1][b].num]) < Cardinality(MaskedIn)
    /\ \E st \in LastProfiles : \E j \in MaskedIn : ds[j] = 2 * st[2]
    /\ \E st \in LastProfiles : \E j \in MaskedIn : 10 * ds[j] = st[2]

\* C9: a subhalo whose minimum distance in the aligned window is attained first at
\* the most recent snapshot has xp equal to its present-day x = ds[-1] /
\* host.rs[-1]; the mask excludes it, and it is counted neither in n nor in any
\* histogram.
C9_FirstInfallExcluded ==
    JustMasked =>
        /\ \A j \in FirstInfall : xps[j] = xs[j] /\ ~mask[j]
        /\ n <= Len(mask) - Cardinality(FirstInfall)
        /\ sub_counts[i] > SUBHALO_LIM =>
              \A st \in LastProfiles :
                  SumSeq([b \in 1..25 |-> st[1][b].num])
                      <= Len(mask) - Cardinality(FirstInfall)

\* a qualifying host with a first-infall subhalo inside every histogram's range
C9_Witness ==
    /\ JustMasked
    /\ sub_counts[i] > SUBHALO_LIM
    /\ \E j \in FirstInfall :
          /\ xps[j].num < xps[j].den
          /\ ds[j] > 0
          /\ \A st \in LastProfiles : 10 * ds[j] >= st[2] /\ ds[j] <= 2 * st[2]

\* C6: after the scan, hs holds exactly one Halo per maximal run of non-sentinel
\* rows, built from that run's rows and keyed by the halo_id of the run's last row;
\* no Halo is keyed by -1 or built from an empty slice.
C6_Segmentation ==
    pc # "scan" =>
        /\ -1 \notin DOMAIN hs
        /\ Cardinality(DOMAIN hs) = Cardinality(RunEnds)
        /\ \A id \in DOMAIN hs :
              /\ hs[id].id = id
              /\ hs[id].scales # <<>>
              /\ \E b \in RunEnds :
                    /\ tree[b].id = id
                    /\ hs[id].scales = Column(SubSeq(tree, RunStart(b), b), "scale")
                    /\ hs[id].xs = Column(SubSeq(tree, RunStart(b), b), "x")

\* C10: over the whole run every subhalo in a processed host's list is displaced
\* exactly once, never twice, and before perihelion() is called on it; hosts are
\* never displaced.
C10_DisplacedOnce ==
    /\ \A id \in DOMAIN hs : Cardinality(DisplaceCalls(id)) <= 1
    /\ \A c \in 1..Len(calls) :
          calls[c].op = "perihelion" => \E c2 \in DisplaceCalls(calls[c].self) : c2 < c
    /\ \A h \in 1..Len(hosts) : DisplaceCalls(hosts[h]) = {}
    /\ pc \in {"done", "TypeError"} =>
          \A h \in 1..Len(hosts) : \A j \in 1..Len(hs[hosts[h]].subs) :
              Cardinality(DisplaceCalls(hs[hosts[h]].subs[j])) = 1

====
